---------------------------- MODULE Spec2Model ----------------------------
(***************************************************************************)
(* A model of the leaky-bucket rate-limiting cache of leakybucket.go:      *)
(* the Cache (MaxEntries, cache, entries) behind its mutex, the callers of *)
(* Put and PutString as processes, and put, gc, scan and update as the     *)
(* steps and operators those callers run.                                  *)
(*                                                                         *)
(* Scaling.  int64 is modelled as the two's-complement ring                *)
(* IntMin..IntMax with IntMax a model bound, so that the wrap-around of    *)
(* the source's + and - happens inside the model.  gcScanEntries (1000 in  *)
(* the source) and gcMustRemoveEntries (100 in the source) are scaled to   *)
(* 2 and 2, so that a scan window smaller than the table, a capacity       *)
(* below, equal to and above gcMustRemoveEntries, and a partial forced     *)
(* deletion all happen with at most five keys.                             *)
(***************************************************************************)
EXTENDS Integers, Sequences, FiniteSets, TLC

(***************************************************************************)
(* Bounds of the model.                                                    *)
(***************************************************************************)
\* The largest value of the scaled int64; the ring is -(IntMax+1)..IntMax.
IntMax == 3
\* Timestamps (time.Now().UnixNano()) range over 0..MaxTime.
MaxTime == 1
\* The number of concurrent callers in SpecConc, SpecConcFair and SpecTime.
NumProcs == 2

(***************************************************************************)
(* Program constants (leakybucket.go lines 12 and 13), scaled as said      *)
(* above.                                                                  *)
(***************************************************************************)
gcScanEntries == 2
gcMustRemoveEntries == 2

(***************************************************************************)
(* Fixed-width arithmetic: Go's int64 + and - wrap around.                 *)
(***************************************************************************)
IntMin == -(IntMax + 1)
Wrap(x) == ((x - IntMin) % (2 * (IntMax + 1))) + IntMin
Add64(a, b) == Wrap(a + b)
Sub64(a, b) == Wrap(a - b)

Min(a, b) == IF a < b THEN a ELSE b

(***************************************************************************)
(* key: the 64-bit FNV-1a hash of a string (a sequence of bytes).  A       *)
(* uint64 is four 16-bit limbs, least significant first, so that every     *)
(* intermediate product stays within TLC's integers.                       *)
(***************************************************************************)
Limb == 256 * 256
U64(n) == <<n, 0, 0, 0>>
\* hash/fnv offset64 = 0xcbf29ce484222325, prime64 = 0x00000100000001b3
FnvOffset64 == <<8997, 33826, 40164, 52210>>
FnvPrime64 == <<435, 0, 256, 0>>

RECURSIVE XorBits(_, _, _)
XorBits(a, b, n) ==
    IF n = 0 THEN 0
    ELSE (((a % 2) + (b % 2)) % 2) + 2 * XorBits(a \div 2, b \div 2, n - 1)

\* h ^= uint64(c) for a byte c: only the low byte of the low limb changes.
XorByte(h, c) ==
    <<(h[1] \div 256) * 256 + XorBits((h[1] % 256), c, 8), h[2], h[3], h[4]>>

\* h *= prime64 (mod 2^64), schoolbook over the limbs.
MulU64(h, m) ==
    LET c1 == h[1] * m[1]
        c2 == h[2] * m[1] + h[1] * m[2] + (c1 \div Limb)
        c3 == h[3] * m[1] + h[2] * m[2] + h[1] * m[3] + (c2 \div Limb)
        c4 == ((h[4] * m[1]) % Limb) + ((h[3] * m[2] + h[2] * m[3]) % Limb)
              + ((h[1] * m[4]) % Limb) + (c3 \div Limb)
    IN  <<c1 % Limb, c2 % Limb, c3 % Limb, c4 % Limb>>

RECURSIVE FnvWrite(_, _)
FnvWrite(h, s) ==
    IF s = <<>> THEN h
    ELSE FnvWrite(MulU64(XorByte(h, Head(s)), FnvPrime64), Tail(s))

key(ks) == FnvWrite(FnvOffset64, ks)

(***************************************************************************)
(* entry and entry.update                                                  *)
(***************************************************************************)
Entry(t, u) == [tokens |-> t, updated |-> u]
\* The value a key that is not in the map has in the model's cache function.
NoEntry == Entry(0, -1)

\* Mutant of update: the elapsed time is counted one unit too long.
updateOffByOne(e, now) ==
    LET s0 == Sub64(now, e.updated) + 1
        s == IF s0 < 0 THEN 0 ELSE s0
        t0 == Sub64(e.tokens, s)
        t == IF t0 < 0 THEN 0 ELSE t0
    IN  Entry(t, now)

\* update drains a bucket according to how much time has elapsed.
update(e, now) ==
    LET s0 == Sub64(now, e.updated)
        s == IF s0 < 0 THEN 0 ELSE s0
        t0 == Sub64(e.tokens, s)
        t == IF t0 < 0 THEN 0 ELSE t0
    IN  Entry(t, now)

(***************************************************************************)
(* The keys and strings the callers use.  The numeric keys are those of    *)
(* leakybucket_test.go (1..5), the strings those of TestPutString.         *)
(***************************************************************************)
Str1 == <<49>>
Str2 == <<50>>
Strings == {Str1, Str2}
StringKeys == {key(ks) : ks \in Strings}
NumKey(i) == U64(i)
AllKeys == {NumKey(i) : i \in 1..5} \cup StringKeys
Times == 0..MaxTime

VARIABLES
    MaxEntries,  \* Cache.MaxEntries
    cache,       \* Cache.cache: AllKeys -> entry, NoEntry for a key not in the map
    entries,     \* Cache.entries
    mu,          \* Cache.mu: 0 when free, else the caller holding it
    pc,          \* where each caller is in Put/PutString
    arg,         \* each caller's key, quantity, limit and now
    ret,         \* put's locals e.tokens, exists, ok: what the call returns
    left,        \* gc's local left
    old,         \* history: the entry put found for its key (NoEntry if none)
    snap,        \* history: cache and entries when the lock was acquired or gc called
    seen,        \* history: the keys put has been called on
    evicted,     \* history: keys deleted by gc since put was last called on them
    gclog,       \* history: what the running gc has done so far
    gckeys,      \* history: the keys whose insertion ran gc
    strs,        \* history: the strings PutString has been called on
    clock,       \* the clock time.Now() reads, where a specification has one
    applied      \* history: per key, what the puts since its insertion did

vars == <<MaxEntries, cache, entries, mu, pc, arg, ret, left, old, snap,
          seen, evicted, gclog, gckeys, strs, clock, applied>>

\* The history of a key no put was recorded for.  sum is the sum of the
\* admitted quantities, first and largest the first and the largest
\* timestamp put was called with.
NoApplied == [sum |-> 0, first |-> -1, largest |-> -1]

Procs == 1..NumProcs
NoArg == [api |-> "none"]
NoRet == [ok |-> FALSE, exists |-> FALSE, tokens |-> 0, set |-> FALSE]
NoSnap == [set |-> FALSE]
NoLog == [left0 |-> 0, deleted |-> <<>>, lefts |-> <<>>, forced |-> {},
          forcedLive |-> {}]

Keys(c) == {k \in DOMAIN c : c[k] # NoEntry}
Size(c) == Cardinality(Keys(c))

(***************************************************************************)
(* New                                                                     *)
(***************************************************************************)
New(maxEntries) ==
    IF maxEntries <= 0 THEN [nil |-> TRUE]
    ELSE [nil |-> FALSE, MaxEntries |-> maxEntries,
          cache |-> [k \in AllKeys |-> NoEntry], entries |-> 0]

InitWith(caps) ==
    /\ \E m \in caps :
          LET b == New(m) IN
          /\ ~b.nil
          /\ MaxEntries = b.MaxEntries
          /\ cache = b.cache
          /\ entries = b.entries
    /\ mu = 0
    /\ pc = [p \in Procs |-> "idle"]
    /\ arg = [p \in Procs |-> NoArg]
    /\ ret = [p \in Procs |-> NoRet]
    /\ left = [p \in Procs |-> 0]
    /\ old = [p \in Procs |-> NoEntry]
    /\ snap = NoSnap
    /\ seen = {}
    /\ evicted = {}
    /\ gclog = NoLog
    /\ gckeys = {}
    /\ strs = {}
    /\ clock = 0
    /\ applied = [k \in AllKeys |-> NoApplied]

(***************************************************************************)
(* Put and PutString up to the lock: the key (hashed for PutString) and    *)
(* the clock reading are taken before lb.mu.Lock().                        *)
(***************************************************************************)
Call(p, api, ks, k, quantity, limit, now) ==
    /\ pc[p] = "idle"
    /\ arg' = [arg EXCEPT ![p] = [api |-> api, ks |-> ks, k |-> k,
                                  quantity |-> quantity, limit |-> limit,
                                  now |-> now]]
    /\ pc' = [pc EXCEPT ![p] = "lock"]
    /\ UNCHANGED <<MaxEntries, cache, entries, mu, ret, left, old, snap,
                   seen, evicted, gclog, gckeys, strs, clock, applied>>

Put(p, k, quantity, limit, now) ==
    Call(p, "Put", <<>>, k, quantity, limit, now)

\* Mutant of PutString: the string is read as a decimal number, not hashed.
PutStringAtoi(p, ks, quantity, limit, now) ==
    Call(p, "PutString", ks, NumKey(Head(ks) - 48), quantity, limit, now)

PutString(p, ks, quantity, limit, now) ==
    Call(p, "PutString", ks, key(ks), quantity, limit, now)

\* Mutant of Lock: the caller does not wait for the mutex to be free.
LockNoWait(p) ==
    /\ pc[p] = "lock"
    /\ mu' = p
    /\ snap' = [set |-> TRUE, cache |-> cache, entries |-> entries,
                seen |-> seen, evicted |-> evicted, strs |-> strs]
    /\ pc' = [pc EXCEPT ![p] = "put"]
    /\ UNCHANGED <<MaxEntries, cache, entries, arg, ret, left, old, seen,
                   evicted, gclog, gckeys, strs, clock, applied>>

Lock(p) ==
    /\ pc[p] = "lock"
    /\ mu = 0
    /\ mu' = p
    /\ snap' = [set |-> TRUE, cache |-> cache, entries |-> entries,
                seen |-> seen, evicted |-> evicted, strs |-> strs]
    /\ pc' = [pc EXCEPT ![p] = "put"]
    /\ UNCHANGED <<MaxEntries, cache, entries, arg, ret, left, old, seen,
                   evicted, gclog, gckeys, strs, clock, applied>>

\* Mutant of Unlock: the caller returns without releasing the mutex.
UnlockKeepsMutex(p) ==
    /\ pc[p] = "unlock"
    /\ mu' = mu
    /\ pc' = [pc EXCEPT ![p] = "idle"]
    /\ arg' = [arg EXCEPT ![p] = NoArg]
    /\ ret' = [ret EXCEPT ![p] = NoRet]
    /\ left' = [left EXCEPT ![p] = 0]
    /\ old' = [old EXCEPT ![p] = NoEntry]
    /\ snap' = NoSnap
    /\ gclog' = NoLog
    /\ UNCHANGED <<MaxEntries, cache, entries, seen, evicted, gckeys, strs,
                   clock, applied>>

Unlock(p) ==
    /\ pc[p] = "unlock"
    /\ mu' = 0
    /\ pc' = [pc EXCEPT ![p] = "idle"]
    /\ arg' = [arg EXCEPT ![p] = NoArg]
    /\ ret' = [ret EXCEPT ![p] = NoRet]
    /\ left' = [left EXCEPT ![p] = 0]
    /\ old' = [old EXCEPT ![p] = NoEntry]
    /\ snap' = NoSnap
    /\ gclog' = NoLog
    /\ UNCHANGED <<MaxEntries, cache, entries, seen, evicted, gckeys, strs,
                   clock, applied>>

(***************************************************************************)
(* put, lines 83-94: look the key up, decay or create the entry, test the  *)
(* limit, add the quantity if it fits, write the entry back.               *)
(***************************************************************************)
\* Mutant of putEntry: a rejected put leaves the map as it found it.
putEntryNoWriteBack(c, k, quantity, limit, now) ==
    LET exists == c[k] # NoEntry
        e0 == IF exists THEN update(c[k], now) ELSE Entry(0, now)
        sum == Add64(e0.tokens, quantity)
        ok == sum <= limit
        e == IF ok THEN Entry(sum, e0.updated) ELSE e0
    IN  [cache |-> IF ok THEN [c EXCEPT ![k] = e] ELSE c,
         e |-> e, exists |-> exists, ok |-> ok]

\* Mutant of putEntry: the quantity is added whether or not it fits.
putEntryAlwaysAdd(c, k, quantity, limit, now) ==
    LET exists == c[k] # NoEntry
        e0 == IF exists THEN update(c[k], now) ELSE Entry(0, now)
        sum == Add64(e0.tokens, quantity)
        ok == sum <= limit
        e == Entry(sum, e0.updated)
    IN  [cache |-> [c EXCEPT ![k] = e], e |-> e, exists |-> exists, ok |-> ok]

putEntry(c, k, quantity, limit, now) ==
    LET exists == c[k] # NoEntry
        e0 == IF exists THEN update(c[k], now) ELSE Entry(0, now)
        sum == Add64(e0.tokens, quantity)
        ok == sum <= limit
        e == IF ok THEN Entry(sum, e0.updated) ELSE e0
    IN  [cache |-> [c EXCEPT ![k] = e], e |-> e, exists |-> exists, ok |-> ok]

PutEntry(p) ==
    /\ pc[p] = "put"
    /\ LET a == arg[p]
           r == putEntry(cache, a.k, a.quantity, a.limit, a.now)
       IN  /\ cache' = r.cache
           /\ ret' = [ret EXCEPT ![p] = [ok |-> r.ok, exists |-> r.exists,
                                         tokens |-> r.e.tokens, set |-> TRUE]]
           /\ old' = [old EXCEPT ![p] = cache[a.k]]
           /\ seen' = seen \cup {a.k}
           /\ evicted' = evicted \ {a.k}
           /\ strs' = IF a.api = "PutString" THEN strs \cup {a.ks} ELSE strs
    /\ pc' = [pc EXCEPT ![p] = "count"]
    /\ UNCHANGED <<MaxEntries, entries, mu, arg, left, snap, gclog, gckeys,
                   clock>>

(***************************************************************************)
(* put, lines 96-101, and gc, line 108: count a new key, and enter gc when *)
(* the count exceeds MaxEntries.                                           *)
(***************************************************************************)
\* Mutant of gcLeft: gc aims at MaxEntries itself, without the margin.
gcLeftNoMargin(n, maxEntries) == n - maxEntries

\* Mutant of gcLeft: the margin is added to the target instead of taken off.
gcLeftPlus(n, maxEntries) == n - (maxEntries + gcMustRemoveEntries)

gcLeft(n, maxEntries) == n - (maxEntries - gcMustRemoveEntries)

\* Mutant of PutCount: gc is entered as soon as a new key fills the table.
PutCountAtCapacity(p) ==
    /\ pc[p] = "count"
    /\ LET n == IF ret[p].exists THEN entries ELSE entries + 1
           togc == ~ret[p].exists /\ n >= MaxEntries
       IN  /\ entries' = n
           /\ pc' = [pc EXCEPT ![p] = IF togc THEN "scan1" ELSE "unlock"]
           /\ left' = [left EXCEPT ![p] =
                          IF togc THEN gcLeft(n, MaxEntries) ELSE 0]
           /\ gclog' = IF togc
                       THEN [NoLog EXCEPT !.left0 = gcLeft(n, MaxEntries)]
                       ELSE gclog
           /\ gckeys' = IF togc THEN gckeys \cup {arg[p].k} ELSE gckeys
    /\ UNCHANGED <<MaxEntries, cache, mu, arg, ret, old, snap, seen, evicted,
                   strs, clock, applied>>

PutCount(p) ==
    /\ pc[p] = "count"
    /\ LET n == IF ret[p].exists THEN entries ELSE entries + 1
           togc == ~ret[p].exists /\ n > MaxEntries
       IN  /\ entries' = n
           /\ pc' = [pc EXCEPT ![p] = IF togc THEN "scan1" ELSE "unlock"]
           /\ left' = [left EXCEPT ![p] =
                          IF togc THEN gcLeft(n, MaxEntries) ELSE 0]
           /\ gclog' = IF togc
                       THEN [NoLog EXCEPT !.left0 = gcLeft(n, MaxEntries)]
                       ELSE gclog
           /\ gckeys' = IF togc THEN gckeys \cup {arg[p].k} ELSE gckeys
    /\ UNCHANGED <<MaxEntries, cache, mu, arg, ret, old, snap, seen, evicted,
                   strs, clock, applied>>

(***************************************************************************)
(* scan, lines 134-155.  The range over the map visits its keys in an      *)
(* unspecified order and stops after count of them: the visited keys are   *)
(* any set S of min(count, len) keys.  Each is decayed to now, deleted if  *)
(* it holds no tokens and written back otherwise.                          *)
(***************************************************************************)
ScanSets(c, count) ==
    {S \in SUBSET Keys(c) : Cardinality(S) = Min(count, Size(c))}

scanDeletes(e, now) == update(e, now).tokens <= 0

\* Mutant of scan: a surviving entry is written back with its decayed
\* tokens but keeps its old timestamp.
scanStaleStamp(c, n, now, S) ==
    LET gone == {k \in S : scanDeletes(c[k], now)}
        c2 == [k \in DOMAIN c |->
                 IF k \in gone THEN NoEntry
                 ELSE IF k \in S
                      THEN Entry(update(c[k], now).tokens, c[k].updated)
                 ELSE c[k]]
        n2 == n - Cardinality(gone)
    IN  [cache |-> c2, entries |-> n2, gone |-> gone, result |-> n2 - n]

scan(c, n, now, S) ==
    LET gone == {k \in S : scanDeletes(c[k], now)}
        c2 == [k \in DOMAIN c |->
                 IF k \in gone THEN NoEntry
                 ELSE IF k \in S THEN update(c[k], now)
                 ELSE c[k]]
        n2 == n - Cardinality(gone)
    IN  [cache |-> c2, entries |-> n2, gone |-> gone, result |-> n2 - n]

\* gc lines 111-113 and 117-120: left -= lb.scan(now, gcScanEntries)
gcAfterScan(l, r) == l - r.result

\* Where gc returns to: put (and then the unlock), or the direct caller.
gcReturn(p) == IF arg[p].api = "gc" THEN "gcdone" ELSE "unlock"

GcScan(p, from, to) ==
    /\ pc[p] = from
    /\ \E S \in ScanSets(cache, gcScanEntries) :
          LET r == scan(cache, entries, arg[p].now, S)
              l == gcAfterScan(left[p], r)
          IN  /\ cache' = r.cache
              /\ entries' = r.entries
              /\ left' = [left EXCEPT ![p] = l]
              /\ evicted' = evicted \cup r.gone
              /\ gclog' = [gclog EXCEPT
                             !.deleted = Append(@, Cardinality(r.gone)),
                             !.lefts = Append(@, l)]
              /\ pc' = [pc EXCEPT ![p] = IF l <= 0 THEN gcReturn(p) ELSE to]
    /\ UNCHANGED <<MaxEntries, mu, arg, ret, old, snap, seen, gckeys, strs,
                   clock, applied>>

GcScan1(p) == GcScan(p, "scan1", "scan2")
GcScan2(p) == GcScan(p, "scan2", "force")

(***************************************************************************)
(* gc, lines 122-130: delete keys in map order until left <= 0 or the map  *)
(* is exhausted: any set F of min(left, len) keys.                         *)
(***************************************************************************)
\* Mutant of ForceSets: the last loop returns after its first deletion.
ForceSetsOne(c, l) ==
    {F \in SUBSET Keys(c) : Cardinality(F) = Min(1, Size(c))}

ForceSets(c, l) ==
    {F \in SUBSET Keys(c) : Cardinality(F) = Min(l, Size(c))}

\* Mutant of force: the keys are deleted but entries is not decremented.
forceNoCount(c, n, l, F) ==
    [cache |-> [k \in DOMAIN c |-> IF k \in F THEN NoEntry ELSE c[k]],
     entries |-> n, left |-> l - Cardinality(F)]

force(c, n, l, F) ==
    [cache |-> [k \in DOMAIN c |-> IF k \in F THEN NoEntry ELSE c[k]],
     entries |-> n - Cardinality(F), left |-> l - Cardinality(F)]

GcForce(p) ==
    /\ pc[p] = "force"
    /\ \E F \in ForceSets(cache, left[p]) :
          LET r == force(cache, entries, left[p], F)
          IN  /\ cache' = r.cache
              /\ entries' = r.entries
              /\ left' = [left EXCEPT ![p] = r.left]
              /\ evicted' = evicted \cup F
              /\ gclog' = [gclog EXCEPT
                             !.forced = F,
                             !.forcedLive =
                                {k \in F : ~scanDeletes(cache[k], arg[p].now)}]
    /\ pc' = [pc EXCEPT ![p] = gcReturn(p)]
    /\ UNCHANGED <<MaxEntries, mu, arg, ret, old, snap, seen, gckeys, strs,
                   clock, applied>>

(***************************************************************************)
(* gc called directly with a chosen now, as TestPut does (one goroutine,   *)
(* no lock).                                                               *)
(***************************************************************************)
GcCall(p, now) ==
    /\ pc[p] = "idle"
    /\ mu = 0
    /\ arg' = [arg EXCEPT ![p] = [api |-> "gc", now |-> now]]
    /\ left' = [left EXCEPT ![p] = gcLeft(entries, MaxEntries)]
    /\ gclog' = [NoLog EXCEPT !.left0 = gcLeft(entries, MaxEntries)]
    /\ snap' = [set |-> TRUE, cache |-> cache, entries |-> entries,
                seen |-> seen, evicted |-> evicted, strs |-> strs]
    /\ pc' = [pc EXCEPT ![p] = "scan1"]
    /\ UNCHANGED <<MaxEntries, cache, entries, mu, ret, old, seen, evicted,
                   gckeys, strs, clock, applied>>

GcDone(p) ==
    /\ pc[p] = "gcdone"
    /\ pc' = [pc EXCEPT ![p] = "idle"]
    /\ arg' = [arg EXCEPT ![p] = NoArg]
    /\ left' = [left EXCEPT ![p] = 0]
    /\ gclog' = NoLog
    /\ snap' = NoSnap
    /\ UNCHANGED <<MaxEntries, cache, entries, mu, ret, old, seen, evicted,
                   gckeys, strs, clock, applied>>

(***************************************************************************)
(* put and gc as one step each: every result the code can produce from a   *)
(* table c with count n.  gc's results differ by the keys its two scans    *)
(* visit and the keys its last loop deletes.                               *)
(***************************************************************************)
gcForced(r, l) ==
    {[cache |-> f.cache, entries |-> f.entries] :
        f \in {force(r.cache, r.entries, l, F) : F \in ForceSets(r.cache, l)}}

gcSecond(r1, l1, now) ==
    UNION {LET l2 == gcAfterScan(l1, r2)
           IN  IF l2 <= 0
               THEN {[cache |-> r2.cache, entries |-> r2.entries]}
               ELSE gcForced(r2, l2) :
           r2 \in {scan(r1.cache, r1.entries, now, S) :
                      S \in ScanSets(r1.cache, gcScanEntries)}}

gc(c, n, maxEntries, now) ==
    UNION {LET l1 == gcAfterScan(gcLeft(n, maxEntries), r1)
           IN  IF l1 <= 0
               THEN {[cache |-> r1.cache, entries |-> r1.entries]}
               ELSE gcSecond(r1, l1, now) :
           r1 \in {scan(c, n, now, S) : S \in ScanSets(c, gcScanEntries)}}

put(c, n, maxEntries, k, quantity, limit, now) ==
    LET r == putEntry(c, k, quantity, limit, now)
        n1 == IF r.exists THEN n ELSE n + 1
        after == IF ~r.exists /\ n1 > maxEntries
                 THEN gc(r.cache, n1, maxEntries, now)
                 ELSE {[cache |-> r.cache, entries |-> n1]}
    IN  {[cache |-> g.cache, entries |-> g.entries, tokens |-> r.e.tokens,
          exists |-> r.exists, ok |-> r.ok] : g \in after}

(***************************************************************************)
(* The specifications.                                                     *)
(***************************************************************************)
Step(p) ==
    \/ Lock(p)
    \/ PutEntry(p) /\ UNCHANGED applied
    \/ PutCount(p)
    \/ GcScan1(p)
    \/ GcScan2(p)
    \/ GcForce(p)
    \/ Unlock(p)

\* One caller, as in TestPut and TestPutString: PutString on the two
\* strings, Put on the key of the first, and gc called directly.
PutKeys == {key(Str1)}
Quantities == {-1, 0, 1, IntMax}
Limits == {1, IntMax}
Init == InitWith({1, 2, 3})
Next ==
    \/ \E k \in PutKeys, q \in Quantities, l \in Limits, t \in Times :
          Put(1, k, q, l, t)
    \/ \E ks \in Strings, q \in Quantities, l \in Limits, t \in Times :
          PutString(1, ks, q, l, t)
    \/ \E t \in Times : GcCall(1, t)
    \/ GcDone(1)
    \/ Step(1)
Spec == Init /\ [][Next]_vars

\* TestMaxEntries and TestGC: one caller puts the keys 1..5 once each, in
\* this order, under every capacity from 1 to 3, so that gc runs with a
\* target below, at and above zero and on tables larger than the scan window.
SeqQuantities == {0, 1, 2}
SeqLimits == {1, IntMax}
InitSeq == InitWith({1, 2, 3})
NextSeq ==
    \/ \E q \in SeqQuantities, l \in SeqLimits, t \in Times :
          /\ Cardinality(seen) < 5
          /\ Put(1, NumKey(Cardinality(seen) + 1), q, l, t)
    \/ Step(1)
SpecSeq == InitSeq /\ [][NextSeq]_vars

\* Concurrent callers, as in TestRace: Put on the first string bucket and
\* PutString on the second string.
ConcStrings == {Str2}
ConcQuantities == {1}
ConcLimits == {1}
InitConc == InitWith({1, 2})
NextConc ==
    \/ \E p \in Procs, k \in PutKeys, q \in ConcQuantities,
          l \in ConcLimits, t \in Times :
          Put(p, k, q, l, t)
    \/ \E p \in Procs, ks \in ConcStrings, q \in ConcQuantities,
          l \in ConcLimits, t \in Times :
          PutString(p, ks, q, l, t)
    \/ \E p \in Procs : Step(p)
SpecConc == InitConc /\ [][NextConc]_vars

\* The concurrent callers under the scheduling the code relies on: a
\* goroutine that holds the mutex keeps running (put, gc and the unlock
\* have no blocking operation), and the mutex is fair: a goroutine waiting
\* in lb.mu.Lock() (line 53) acquires it if it is free again and again.
Running(p) ==
    \/ PutEntry(p) /\ UNCHANGED applied
    \/ PutCount(p)
    \/ GcScan1(p)
    \/ GcScan2(p)
    \/ GcForce(p)
    \/ Unlock(p)

\* The callers put at one timestamp into a cache of capacity 1: a rejected
\* new key stores no tokens, so gc's scans delete some keys and its last
\* loop others.
FairQuantities == {1, 2}
FairLimits == {1}
InitFair == InitWith({1})
NextFair ==
    \/ \E p \in Procs, k \in PutKeys, q \in FairQuantities, l \in FairLimits :
          Put(p, k, q, l, 0)
    \/ \E p \in Procs, ks \in ConcStrings, q \in FairQuantities,
          l \in FairLimits :
          PutString(p, ks, q, l, 0)
    \/ \E p \in Procs : Step(p)

SpecConcFair ==
    /\ InitFair
    /\ [][NextFair]_vars
    /\ \A p \in Procs : WF_vars(Running(p)) /\ SF_vars(Lock(p))

\* TestPut: one caller puts the keys 1..3 into a cache whose capacity none
\* of its puts exceeds, and calls gc directly between the puts, with the
\* count below, at and above gc's target and the table within and beyond the
\* scan window.  The limit keeps e.tokens + quantity inside int64.
GcKeys == {NumKey(i) : i \in 1..3}
GcQuantities == {1, 2}
GcLimits == {IntMax - 2}
InitGc == InitWith({4})
NextGc ==
    \/ \E k \in GcKeys, q \in GcQuantities, l \in GcLimits, t \in Times :
          Put(1, k, q, l, t)
    \/ \E t \in Times : GcCall(1, t)
    \/ GcDone(1)
    \/ Step(1)
SpecGc == InitGc /\ [][NextGc]_vars

\* Concurrent callers of Put on one bucket under a clock that never goes
\* back: Put reads the clock (line 51) before it waits for the lock (line
\* 53), so the timestamps reach put out of order.  The limit keeps
\* e.tokens + quantity inside int64, and with one key and MaxEntries = 1
\* put never calls gc, whose steps are therefore not part of TimedStep.
Tick ==
    /\ clock < MaxTime
    /\ clock' = clock + 1
    /\ UNCHANGED <<MaxEntries, cache, entries, mu, pc, arg, ret, left, old,
                   snap, seen, evicted, gclog, gckeys, strs, applied>>

\* The history of put's lines 83-94 on the caller's key: the sum of the
\* admitted quantities and the first and largest timestamps since the key
\* was inserted.
Record(p) ==
    LET a == arg[p]
        r == putEntry(cache, a.k, a.quantity, a.limit, a.now)
        h == IF r.exists THEN applied[a.k] ELSE NoApplied
    IN  applied' = [applied EXCEPT ![a.k] =
                       [sum |-> h.sum + (IF r.ok THEN a.quantity ELSE 0),
                        first |-> IF h.first = -1 THEN a.now ELSE h.first,
                        largest |-> IF a.now > h.largest THEN a.now
                                    ELSE h.largest]]

TimedStep(p) ==
    \/ Lock(p)
    \/ PutEntry(p) /\ Record(p)
    \/ PutCount(p)
    \/ Unlock(p)

TimeQuantities == {0, 1}
TimeLimits == {IntMax - 1}
InitTime == InitWith({1})
NextTime ==
    \/ \E p \in Procs, k \in PutKeys, q \in TimeQuantities, l \in TimeLimits :
          Put(p, k, q, l, clock)
    \/ Tick
    \/ \E p \in Procs : TimedStep(p)
SpecTime == InitTime /\ [][NextTime]_vars

(***************************************************************************)
(* The claims.                                                             *)
(***************************************************************************)
Returned(p) == pc[p] = "unlock"
Outcome(p) ==
    [cache |-> cache, entries |-> entries, tokens |-> ret[p].tokens,
     exists |-> ret[p].exists, ok |-> ret[p].ok]

\* C1: whenever the lock is free (every put that was started has returned or
\* not yet begun), whatever keys, quantities, limits and timestamps the
\* sequential or concurrent callers passed, entries <= MaxEntries.
C1_CapacityBound == mu = 0 => entries <= MaxEntries

\* C1 happens: gc has run, the table was filled up to MaxEntries again, the
\* lock is free and another caller is waiting for it.
C1_Witness ==
    /\ mu = 0
    /\ gckeys # {}
    /\ entries = MaxEntries
    /\ \E p \in Procs : pc[p] = "lock"

\* C3: whenever the lock is free, entries equals the number of keys in the
\* table, whichever path gc and scan took.
C3_CountMatchesTable == mu = 0 => entries = Size(cache)

\* C3 happens: a put ran gc, whose forced deletion emptied the table, and
\* has returned.
C3_Witness ==
    /\ mu = 0
    /\ \A p \in Procs : pc[p] = "idle"
    /\ gckeys # {}
    /\ entries = 0
    /\ Size(cache) = 0

\* C4: at most one caller is inside put/gc at a time, and when a caller is
\* about to release the lock, the table, the count and its results are a
\* result of put run as one step on the table and count it found when it
\* acquired the lock: the calls take effect one at a time in
\* lock-acquisition order.
C4_Serialized ==
    /\ Cardinality({p \in Procs : pc[p] \notin {"idle", "lock"}}) <= 1
    /\ \A p \in Procs :
          Returned(p) =>
             /\ mu = p
             /\ snap.set
             /\ Outcome(p) \in put(snap.cache, snap.entries, MaxEntries,
                                   arg[p].k, arg[p].quantity, arg[p].limit,
                                   arg[p].now)

\* C4 happens: a PutString caller that read the later clock value is about
\* to return from a put that ran gc, while a Put caller waits for the lock.
C4_Witness ==
    \E p, q \in Procs :
       /\ Returned(p)
       /\ arg[p].api = "PutString"
       /\ gclog.forced # {}
       /\ pc[q] = "lock"
       /\ arg[q].api = "Put"
       /\ arg[q].now < arg[p].now

\* The token count put starts from: 0 for a key that is not in the table,
\* else the stored tokens decayed to now.
Decayed(p) ==
    IF old[p] = NoEntry THEN 0 ELSE update(old[p], arg[p].now).tokens

\* C2: put admits if and only if decayed_tokens + q <= limit (the sum taken
\* over the integers), and returns decayed_tokens + q when it admits and
\* decayed_tokens when it rejects.
C2_Admission ==
    \A p \in Procs :
       Returned(p) =>
          LET sum == Decayed(p) + arg[p].quantity
          IN  /\ ret[p].ok <=> (sum <= arg[p].limit)
              /\ ret[p].tokens = IF ret[p].ok THEN sum ELSE Decayed(p)

\* C5: a put on a key that put was never called on reports existed = FALSE,
\* and a put on a key that put was called on before, and that gc has not
\* deleted since, reports existed = TRUE.
C5_NewKeyDetection ==
    \A p \in Procs :
       Returned(p) =>
          /\ arg[p].k \notin snap.seen => ~ret[p].exists
          /\ arg[p].k \in snap.seen \ snap.evicted => ret[p].exists

\* C5 happens: a put on a key whose earlier put was rejected reports
\* existed = TRUE, after gc has evicted another key.
C5_Witness ==
    \E p \in Procs :
       /\ Returned(p)
       /\ ret[p].exists
       /\ old[p].tokens = 0
       /\ arg[p].k \in snap.seen \ snap.evicted
       /\ snap.evicted # {}

\* C6 as stated: after a rejected put the key's stored entry holds the
\* decayed token count, not above the count stored before the call, and
\* updated = now; for a new key a zero-token entry is stored and counted.
C6_RejectedWritesBack ==
    \A p \in Procs :
       (Returned(p) /\ ~ret[p].ok) =>
          LET k == arg[p].k
          IN  /\ cache[k] = Entry(Decayed(p), arg[p].now)
              /\ old[p] # NoEntry => cache[k].tokens <= old[p].tokens
              /\ old[p] = NoEntry =>
                    /\ cache[k] = Entry(0, arg[p].now)
                    /\ entries = snap.entries + 1

\* C6 amended: a rejected put returns the decayed token count, which is not
\* above a stored count that was non-negative, and writes the entry back
\* with that count and updated = now (a zero-token entry, counted, for a new
\* key); the entry is still stored when put returns unless the gc that this
\* put ran has deleted it.
C6_RejectedAmended ==
    \A p \in Procs :
       (ret[p].set /\ ~ret[p].ok) =>
          LET k == arg[p].k
              e == Entry(Decayed(p), arg[p].now)
          IN  /\ ret[p].tokens = Decayed(p)
              /\ (old[p] # NoEntry /\ old[p].tokens >= 0) =>
                    ret[p].tokens <= old[p].tokens
              /\ pc[p] = "count" => cache[k] = e
              /\ (Returned(p) /\ k \notin evicted) => cache[k] = e
              /\ (Returned(p) /\ old[p] = NoEntry /\ gclog = NoLog) =>
                    /\ cache[k] = Entry(0, arg[p].now)
                    /\ entries = snap.entries + 1

\* C6 happens: a rejected put on an existing key has stored the decayed
\* count, below the count stored before.
C6_Witness ==
    \E p \in Procs :
       /\ Returned(p)
       /\ ~ret[p].ok
       /\ old[p] # NoEntry
       /\ 0 < cache[arg[p].k].tokens
       /\ cache[arg[p].k].tokens < old[p].tokens
       /\ cache[arg[p].k].updated = arg[p].now

\* The strings of earlier PutString calls that hash to the key of the
\* PutString call p is making.
SameBucketBefore(p) == {s \in snap.strs : key(s) = key(arg[p].ks)}

\* A PutString call returns what put run on key(s) returns and leaves the
\* table and count that put leaves.
PutStringIsPut(p) ==
    Outcome(p) \in put(snap.cache, snap.entries, MaxEntries, key(arg[p].ks),
                       arg[p].quantity, arg[p].limit, arg[p].now)

\* C7 as stated: PutString(s) is put on key(s); and of two PutString calls
\* whose strings hash to the same key, the second reports existed = TRUE
\* and the count of entries does not grow.
C7_PutStringIsPut ==
    \A p \in Procs :
       (Returned(p) /\ arg[p].api = "PutString") =>
          /\ PutStringIsPut(p)
          /\ SameBucketBefore(p) # {} =>
                /\ ret[p].exists
                /\ entries <= snap.entries

\* C7 amended: PutString(s) is put on key(s); and of two PutString calls
\* whose strings hash to the same key, the second reports existed = TRUE
\* and the count of entries does not grow provided the bucket is still in
\* the table when the second call takes the lock, that is, no gc run (the
\* first call's own included) has deleted it in between.
C7_PutStringAmended ==
    \A p \in Procs :
       (Returned(p) /\ arg[p].api = "PutString") =>
          /\ PutStringIsPut(p)
          /\ (SameBucketBefore(p) # {} /\ key(arg[p].ks) \in Keys(snap.cache))
                => /\ ret[p].exists
                   /\ entries <= snap.entries

\* C7 happens: a second PutString on the same string finds its bucket,
\* reports existed = TRUE and leaves the count of two buckets as it was.
C7_Witness ==
    \E p \in Procs :
       /\ Returned(p)
       /\ arg[p].api = "PutString"
       /\ arg[p].ks \in snap.strs
       /\ key(arg[p].ks) \in Keys(snap.cache)
       /\ ret[p].exists
       /\ entries = 2
       /\ snap.entries = 2

RECURSIVE Sum(_)
Sum(seq) == IF seq = <<>> THEN 0 ELSE Head(seq) + Sum(Tail(seq))

\* C8: when the put of a key never put before finds MaxEntries keys in the
\* table, these being all the keys put so far, every one stored at this
\* put's timestamp with a positive token count, and the put is admitted with
\* a positive quantity, and MaxEntries >= gcMustRemoveEntries, then gc runs
\* on this insertion and had never run before, and it leaves exactly
\* MaxEntries - gcMustRemoveEntries entries.
C8_GcOnceHitsTarget ==
    \A p \in Procs :
       ( /\ Returned(p)
         /\ MaxEntries >= gcMustRemoveEntries
         /\ arg[p].k \notin snap.seen
         /\ snap.seen = Keys(snap.cache)
         /\ snap.entries = MaxEntries
         /\ \A k \in Keys(snap.cache) :
               /\ snap.cache[k].tokens > 0
               /\ snap.cache[k].updated = arg[p].now
         /\ arg[p].quantity > 0
         /\ ret[p].ok )
       => /\ gckeys = {arg[p].k}
          /\ gclog.left0 > 0
          /\ entries = MaxEntries - gcMustRemoveEntries
          /\ Size(cache) = MaxEntries - gcMustRemoveEntries

\* C8 happens: with MaxEntries = 3, the fourth distinct key has been put at
\* the timestamp of the other three, and one entry is left.
C8_Witness ==
    \E p \in Procs :
       /\ Returned(p)
       /\ MaxEntries = 3
       /\ arg[p].k \notin snap.seen
       /\ snap.seen = Keys(snap.cache)
       /\ snap.entries = 3
       /\ \A k \in Keys(snap.cache) :
             /\ snap.cache[k].tokens > 0
             /\ snap.cache[k].updated = arg[p].now
       /\ arg[p].quantity > 0
       /\ ret[p].ok
       /\ gckeys = {arg[p].k}
       /\ entries = 1

\* C9: with MaxEntries = 2, once Put has been called on each of the five
\* keys 1..5, in this order and once each, and the last call has returned,
\* entries = 2 and the table holds exactly the keys 4 and 5.
C9_LastTwoKept ==
    ( /\ MaxEntries = 2
      /\ seen = {NumKey(i) : i \in 1..5}
      /\ \A p \in Procs : pc[p] = "idle" )
    => /\ entries = 2
       /\ Keys(cache) = {NumKey(4), NumKey(5)}

\* C9 happens: the five puts have returned with MaxEntries = 2, the third
\* one having run gc.
C9_Witness ==
    /\ MaxEntries = 2
    /\ seen = {NumKey(i) : i \in 1..5}
    /\ \A p \in Procs : pc[p] = "idle"
    /\ gckeys = {NumKey(3)}
    /\ Size(cache) = 2

\* C10: in gc, left after each scan phase is its value before the scan
\* minus the number of entries that scan deleted; hence the last loop deletes
\* an entry with positive decayed tokens only if the two scans together
\* deleted fewer entries than the initial left.
C10_LeftCountsDeletions ==
    /\ \A i \in 1..Len(gclog.lefts) :
          gclog.lefts[i] =
             (IF i = 1 THEN gclog.left0 ELSE gclog.lefts[i - 1])
             - gclog.deleted[i]
    /\ gclog.forcedLive # {} => Sum(gclog.deleted) < gclog.left0


\* The put caller p is returning from ran gc.
GcRan(p) == Returned(p) /\ gclog.deleted # <<>>

\* C11 as stated: when a put that ran gc returns, the count of entries is at
\* most MaxEntries - gcMustRemoveEntries, whatever MaxEntries > 0 is.
C11_GcReachesTarget ==
    \A p \in Procs :
       GcRan(p) => entries <= MaxEntries - gcMustRemoveEntries

\* C11 amended: when a put that ran gc returns, the count of entries is at
\* most MaxEntries - gcMustRemoveEntries where that target is not negative,
\* and 0 where it is (MaxEntries < gcMustRemoveEntries).
C11_GcReachesTargetOrZero ==
    \A p \in Procs :
       GcRan(p) =>
          entries <= IF MaxEntries >= gcMustRemoveEntries
                     THEN MaxEntries - gcMustRemoveEntries
                     ELSE 0

\* C11 happens: a put ran gc under a capacity above gcMustRemoveEntries and
\* returns with exactly the target count of entries, which is positive.
C11_Witness ==
    \E p \in Procs :
       /\ GcRan(p)
       /\ MaxEntries > gcMustRemoveEntries
       /\ entries = MaxEntries - gcMustRemoveEntries

\* C12: under concurrent Put callers that read a clock that never goes back
\* before they acquire the lock, a key that is in the table and received
\* only non-negative quantities stores at least the sum of its admitted
\* quantities minus the time between the first and the largest timestamp
\* put was called with for it.
C12_DrainAtMostElapsed ==
    \A k \in Keys(cache) :
       applied[k].first # -1 =>
          cache[k].tokens >=
             applied[k].sum - (applied[k].largest - applied[k].first)

\* C13 as stated: when put returns, its key is in the table with the token
\* count put returns; a gc this put ran has not deleted the key.
C13_KeyStoredAtReturn ==
    \A p \in Procs :
       Returned(p) =>
          /\ arg[p].k \in Keys(cache)
          /\ cache[arg[p].k].tokens = ret[p].tokens

\* C13 amended: when put returns, its key is in the table with the token
\* count put returns, unless this put inserted the key, ran gc, and gc
\* deleted the key again.
C13_KeyStoredUnlessGc ==
    \A p \in Procs :
       Returned(p) =>
          \/ /\ arg[p].k \in Keys(cache)
             /\ cache[arg[p].k].tokens = ret[p].tokens
          \/ /\ GcRan(p)
             /\ ~ret[p].exists
             /\ arg[p].k \in evicted
             /\ arg[p].k \notin Keys(cache)

\* C13 happens: a put inserted its key and ran gc, whose last loop deleted
\* other keys, and the key is stored with the positive count put returns.
C13_Witness ==
    \E p \in Procs :
       /\ GcRan(p)
       /\ gclog.forced # {}
       /\ arg[p].k \in Keys(cache)
       /\ cache[arg[p].k].tokens = ret[p].tokens
       /\ ret[p].tokens > 0

\* max(0, x) over the integers.
Pos(x) == IF x < 0 THEN 0 ELSE x

\* C14: for every entry the table stores, with tokens T last updated at t0,
\* and every now, update returns an entry with updated = now and
\* tokens = max(0, T - max(0, now - t0)) computed over the integers; so the
\* tokens are >= 0 after the decay and a now earlier than t0 drains nothing.
C14_DecayFormula ==
    \A k \in Keys(cache), now \in Times :
       LET e == cache[k]
           d == update(e, now)
       IN  /\ d.updated = now
           /\ d.tokens = Pos(e.tokens - Pos(now - e.updated))
           /\ d.tokens >= 0
           /\ now < e.updated => d.tokens = Pos(e.tokens)

\* The keys of table c whose tokens decayed to now are <= 0.
Drained(c, now) == {k \in Keys(c) : update(c[k], now).tokens <= 0}

\* C15: in a gc(now) called on a table, the first scan deletes only entries
\* whose tokens decayed to now are <= 0 and deletes every such entry it
\* visits (it leaves at most as many of them as it did not visit); and when
\* gc was called on a table of at most gcScanEntries entries with a count at
\* or below the target, then on its return the table holds exactly the
\* entries whose decayed tokens are positive.
C15_GcRemovesDrainedOnly ==
    \A p \in Procs :
       (arg[p].api = "gc" /\ gclog.deleted # <<>>) =>
          LET before == Keys(snap.cache)
              drained == Drained(snap.cache, arg[p].now)
              visited == Min(gcScanEntries, Size(snap.cache))
          IN  /\ Len(gclog.deleted) = 1 =>
                    /\ (before \ Keys(cache)) \subseteq drained
                    /\ Cardinality(drained \cap Keys(cache))
                          <= Size(snap.cache) - visited
              /\ ( /\ pc[p] = "gcdone"
                   /\ Size(snap.cache) <= gcScanEntries
                   /\ gclog.left0 <= 0 )
                    => Keys(cache) = before \ drained

\* The timestamps of a put that follows a gc: those of the callers and one
\* beyond them.
LaterTimes == 0..(MaxTime + 1)

\* What put reports for key k of table c: tokens, existed and admitted.
Observed(c, k, quantity, limit, now) ==
    LET r == putEntry(c, k, quantity, limit, now)
    IN  <<r.e.tokens, r.exists, r.ok>>

\* C16: when a gc called at t1 returns, every key k it kept whose entry e
\* was last updated at t0 <= t1 satisfies, for every t2 >= t1,
\* update(update(e, t1), t2) = update(e, t2), and a put on k at t2 reports
\* the same tokens, existed and admitted on the table gc left as on the
\* table gc was called on.
C16_GcRewriteUnobservable ==
    \A p \in Procs :
       (pc[p] = "gcdone") =>
          \A k \in Keys(cache), t2 \in LaterTimes :
             LET e == snap.cache[k]
                 t1 == arg[p].now
             IN  (e.updated <= t1 /\ t1 <= t2) =>
                    /\ update(update(e, t1), t2) = update(e, t2)
                    /\ \A q \in Quantities, l \in Limits :
                          Observed(cache, k, q, l, t2)
                             = Observed(snap.cache, k, q, l, t2)

\* C16 happens: a gc at t1 has returned and kept a key whose entry, last
\* updated before t1, it rewrote with fewer tokens.
C16_Witness ==
    \E p \in Procs :
       /\ pc[p] = "gcdone"
       /\ \E k \in Keys(cache) :
             /\ snap.cache[k].updated < arg[p].now
             /\ cache[k].updated = arg[p].now
             /\ 0 < cache[k].tokens
             /\ cache[k].tokens < snap.cache[k].tokens

\* The put that p is returning from inserted a new key and the count then
\* exceeded MaxEntries.
Overflowed(p) == ~ret[p].exists /\ snap.entries + 1 > MaxEntries

\* C17: a put runs gc only if it inserted a new key and the count then
\* exceeded MaxEntries; every other put on key k leaves the entry of every
\* other key as it was, and the count as it was for an existing key and one
\* higher for a new key.
C17_GcOnlyOnOverflow ==
    \A p \in Procs :
       Returned(p) =>
          /\ GcRan(p) => Overflowed(p)
          /\ ~Overflowed(p) =>
                /\ \A k \in AllKeys \ {arg[p].k} : cache[k] = snap.cache[k]
                /\ entries = snap.entries + (IF ret[p].exists THEN 0 ELSE 1)

\* C17 happens: a put inserted a second key into a table with room for it,
\* without running gc, and the first key's entry is as it was.
C17_Witness ==
    \E p \in Procs :
       /\ Returned(p)
       /\ ~ret[p].exists
       /\ ~GcRan(p)
       /\ snap.entries = 1
       /\ entries = 2
       /\ \E k \in Keys(snap.cache) : cache[k] = snap.cache[k]

\* C18 as stated: update(e, e.updated) = e for every entry e the table
\* stores.
C18_ZeroTimeDecay ==
    \A k \in Keys(cache) : update(cache[k], cache[k].updated) = cache[k]

\* C18 amended: update(e, e.updated) = e for every stored entry e with
\* tokens >= 0, and a rejected put at now = e.updated leaves such an entry
\* as it was; for a stored entry with tokens < 0, update(e, e.updated) has
\* tokens = 0 and the same updated time.
C18_ZeroTimeDecayNonNeg ==
    /\ \A k \in Keys(cache) :
          update(cache[k], cache[k].updated) =
             IF cache[k].tokens >= 0 THEN cache[k]
             ELSE Entry(0, cache[k].updated)
    /\ \A p \in Procs :
          ( /\ Returned(p)
            /\ ret[p].exists
            /\ ~ret[p].ok
            /\ old[p].tokens >= 0
            /\ arg[p].now = old[p].updated ) => cache[arg[p].k] = old[p]

\* C18 happens: a put at the timestamp its key's entry was last updated at
\* was rejected, so that the entry written back is the decayed one, and the
\* entry holds the positive token count it held before.
C18_Witness ==
    \E p \in Procs :
       /\ Returned(p)
       /\ ret[p].exists
       /\ ~ret[p].ok
       /\ old[p].tokens > 0
       /\ arg[p].now = old[p].updated
       /\ cache[arg[p].k] = old[p]

\* C19: every caller that has called Put or PutString eventually returns,
\* whatever gc its put runs and however many callers wait for the lock; and
\* when the last loop of gc has run, left <= 0 or the table is empty.
C19_EveryCallReturns ==
    /\ [](\A p \in Procs :
            ( /\ Returned(p)
              /\ Len(gclog.lefts) = 2
              /\ gclog.lefts[2] > 0 ) => (left[p] <= 0 \/ Size(cache) = 0))
    /\ \A p \in Procs : (pc[p] # "idle") ~> (pc[p] = "idle")

\* C19 happens: a caller is about to return from a put whose gc ended its
\* last loop on an empty table with left still positive, while another
\* caller waits for the lock.
C19_Witness ==
    \E p, q \in Procs :
       /\ Returned(p)
       /\ Len(gclog.lefts) = 2
       /\ gclog.lefts[2] > 0
       /\ left[p] > 0
       /\ Size(cache) = 0
       /\ pc[q] = "lock"

\* C20: for a put with a non-negative quantity and a non-negative limit,
\* when put has written its entry back: if the put was admitted then the
\* sum decayed_tokens + quantity taken over the integers is <= limit, and
\* the token count stored for the key is not negative.
C20_NoWrapInAdmission ==
    \A p \in Procs :
       ( /\ pc[p] = "count"
         /\ arg[p].quantity >= 0
         /\ arg[p].limit >= 0 ) =>
          /\ ret[p].ok => Decayed(p) + arg[p].quantity <= arg[p].limit
          /\ cache[arg[p].k].tokens >= 0

=============================================================================
